---- MODULE Spec2Model ----
\* ReleaseRacer: the per-channel pollers (cogs/poller/cog.py), the release
\* tracker (cogs/poller/types.py), its JSON storage (storage.py) and the
\* notifier's handler of new_build (cogs/notifier.py).
\*
\* Spec is the poller cog with its tracker and storage; SpecNotify is one
\* run of Notifier.on_new_build over a registry of feeds; SpecFetch follows
\* one call of get_release_build_information request by request; SpecFlow
\* follows one channel from its poller to the handlers of its new_build
\* events, and SpecFlowFair is SpecFlow with the loop's tasks going on.
EXTENDS Integers, Sequences, FiniteSets, TLC

\* ------------------------------------------------------------------ bounds
\* Consecutive timeouts of one poller that are counted (the counter saturates).
MaxRetries == 2
\* Executor threads still writing the file after their poller was cancelled.
MaxOrphans == 1
\* Script tags an entry page may carry.
MaxTags == 3
\* New builds detected in a run in which the handlers of new_build are followed.
MaxFound == 2

\* ------------------------------------------------------------- vocabulary
\* ReleaseChannel member names.
Channels == {"CANARY", "STABLE", "PTB"}

\* Release build ids are the digits captured by RELEASE_BUILD_REGEX, kept as
\* strings: "10" then "9" is a decreasing id.
Builds == {"9", "10"}

\* Python's None: dict.get(key, None) on an absent key, Task.exception() of a
\* task that returned.
None == "None"

\* str.lower() on the names that occur.
Lower(s) ==
  CASE s \in {"CANARY", "Canary"} -> "canary"
    [] s \in {"STABLE", "Stable"} -> "stable"
    [] s \in {"PTB", "Ptb"} -> "ptb"
    [] OTHER -> s

\* int() of a build id.
Num(s) ==
  CASE s = "9" -> 9
    [] s = "10" -> 10
    [] OTHER -> 0

\* Key with the channel's name left out.
KeyShared(c) == "last_release"

\* The storage key of a channel.
Key(c) == "last_release_" \o Lower(c)

Keys == {Key(c) : c \in Channels}

\* The environments of a run: the channels whose servers answer. Requests to
\* the third channel only time out, which its poller retries for ever.
UpSets == {{"CANARY", "STABLE"}, {"CANARY", "PTB"}, {"STABLE", "PTB"}}

\* The contents a dict of last releases can have; an absent key maps to None.
Mappings == [Keys -> Builds \cup {None}]

EmptyMapping == [k \in Keys |-> None]

\* releases.json: not there, opened for writing and cut to length 0,
\* holding the JSON of a whole mapping, or holding the bytes two threads
\* left that wrote it at once through file objects of their own (the tail
\* of the longer write behind the shorter one).
Absent == [st |-> "absent", map |-> EmptyMapping]
Truncated == [st |-> "truncated", map |-> EmptyMapping]
Clobbered == [st |-> "clobbered", map |-> EmptyMapping]
Written(d) == [st |-> "written", map |-> d]

Files == {Absent, Truncated, Clobbered} \cup {Written(d) : d \in Mappings}

\* JSONStorage.__init__: the mapping loaded from the file.
Load(f) == IF f.st = "absent" THEN EmptyMapping ELSE f.map

\* JSONStorage.get(key, None).
Get(d, k) == d[k]

\* put with its assignment lost.
PutNowhere(d, k, v) == d

\* put into a mapping made anew: the other keys are gone.
PutDropsOthers(d, k, v) == [EmptyMapping EXCEPT ![k] = v]

\* The assignment of JSONStorage.put.
Put(d, k, v) == [d EXCEPT ![k] = v]

\* The test of track with builds compared as numbers that only grow.
IsNewBuildOrdered(last_release, release_build) ==
  last_release = None \/ Num(last_release) < Num(release_build)

\* The test of ReleaseTracker.track: the build is new.
IsNewBuild(last_release, release_build) ==
  last_release = None \/ last_release # release_build

\* ------------------------------------------------------------------ state
VARIABLES
  up,        \* the channels whose servers answer (the environment of a run)
  loaded,    \* the Poller cog is loaded (not yet __unload-ed)
  pc,        \* per channel: where the task in _poller_tasks stands
  outcome,   \* per channel: the asyncio state of that task
  exc,       \* per channel: the exception the task ended with (Task.exception())
  logged,    \* per channel: the error _poll logged before leaving its loop
  info,      \* per channel: release_build of the descriptor fetched in this cycle
  last,      \* per channel: last_release read by track in this cycle
  before,    \* per channel: the build of the track call before this one (history)
  dec,       \* per channel: the branch track took in this cycle
  fired,     \* per channel: new_build events dispatched in this cycle
  tracked,   \* per channel: the build of the latest track call (history)
  retries,   \* per channel: timeouts in a row of the task (history, saturating)
  sleeps,    \* per channel: sleeps finished since the task's last fetched descriptor
  gap,       \* per channel: the value of sleeps when this cycle's descriptor arrived
  data,      \* JSONStorage._data
  file,      \* releases.json on disk
  orphans,   \* executor threads inside _save whose poller was cancelled
  live,      \* per channel: poller tasks created and neither cancelled nor finished
  race,      \* per channel: what other writers did since the task's _save opened the file
  ready,     \* the bot is ready (wait_until_ready returns)
  rel,       \* the channel of the release the handler was dispatched with
  feeds,     \* Notifier.feeds: per channel id, the names it subscribes to
  reach,     \* per channel id: what get_channel and send do for it
  hpc,       \* where the on_new_build handler stands
  idx,       \* the handler's position in feeds.items()
  attempts,  \* per channel id: the calls of channel.send
  fch,       \* the channel of the get_release_build_information call followed
  fpc,       \* where that call stands
  reqs,      \* the URLs the call has requested, in order
  status,    \* resp.status of the login page (0: no answer yet)
  body,      \* the elements of the login page's body, in document order
  hashes,    \* release_hashes (<<>>: not built)
  marker,    \* the release build in the main asset's body (None: no match)
  ferr,      \* the exception the call raised (None: none)
  found,     \* the builds track decided New for, in order (history)
  handlers,  \* the tasks dispatch('new_build') created for on_new_build, in order
  sent,      \* the calls of channel.send, in order: detection and channel id
  runq       \* the handlers whose next step the loop has scheduled, in order

pvars == <<up, loaded, pc, outcome, exc, logged, info, last, before, dec, fired,
           tracked, retries, sleeps, gap, data, file, orphans, live, race>>

nvars == <<ready, rel, feeds, reach, hpc, idx, attempts>>

gvars == <<fch, fpc, reqs, status, body, hashes, marker, ferr>>

hvars == <<found, handlers, sent, runq>>

vars == <<pvars, nvars, gvars, hvars>>

cycleVars == <<info, last, before, dec, fired, gap>>

Running == {"fetch", "put", "saving", "sleep"}

\* ------------------------------------------------------------------- init
\* The cog after Poller.__init__, on a first start (no releases.json yet).
PollerInit ==
  /\ up \in UpSets
  /\ loaded = TRUE
  /\ pc = [c \in Channels |-> "none"]
  /\ outcome = [c \in Channels |-> "none"]
  /\ exc = [c \in Channels |-> None]
  /\ logged = [c \in Channels |-> None]
  /\ info = [c \in Channels |-> None]
  /\ last = [c \in Channels |-> None]
  /\ before = [c \in Channels |-> None]
  /\ dec = [c \in Channels |-> "none"]
  /\ fired = [c \in Channels |-> 0]
  /\ retries = [c \in Channels |-> 0]
  /\ sleeps = [c \in Channels |-> -1]
  /\ gap = [c \in Channels |-> -1]
  /\ file = Absent
  /\ data = Load(file)
  /\ tracked = [c \in Channels |-> Get(data, Key(c))]
  /\ orphans = 0
  /\ live = [c \in Channels |-> 0]
  /\ race = [c \in Channels |-> "none"]

\* The per-cycle variables of channel c back to their initial values.
ResetCycle(c) ==
  /\ info' = [info EXCEPT ![c] = None]
  /\ last' = [last EXCEPT ![c] = None]
  /\ before' = [before EXCEPT ![c] = None]
  /\ dec' = [dec EXCEPT ![c] = "none"]
  /\ fired' = [fired EXCEPT ![c] = 0]
  /\ gap' = [gap EXCEPT ![c] = -1]

\* ------------------------------------------------------------- supervisor
\* _stop_pollers: task.cancel() on the task of channel c. A task that runs
\* gets CancelledError at its await and is live no more; cancel() on a task
\* that is done does nothing. The count of live tasks of c afterwards.
Stopped(c) == IF pc[c] \in Running THEN live[c] - 1 ELSE live[c]

\* Threads that keep running when every pending task is cancelled: a _save
\* that has opened the file cannot be cancelled.
Detached == Cardinality({c \in Channels : pc[c] = "saving"})

\* reboot that creates no poller for a channel whose task is done.
RebootLiveOnly ==
  /\ loaded
  /\ orphans + Detached <= MaxOrphans
  /\ orphans' = orphans + Detached
  /\ pc' = [c \in Channels |-> IF pc[c] = "done" THEN "done" ELSE "fetch"]
  /\ outcome' = [c \in Channels |->
                   IF pc[c] = "done" THEN outcome[c] ELSE "pending"]
  /\ info' = [c \in Channels |-> None]
  /\ last' = [c \in Channels |-> None]
  /\ before' = [c \in Channels |-> None]
  /\ dec' = [c \in Channels |-> "none"]
  /\ fired' = [c \in Channels |-> 0]
  /\ gap' = [c \in Channels |-> -1]
  /\ retries' = [c \in Channels |-> 0]
  /\ sleeps' = [c \in Channels |-> -1]
  /\ live' = [c \in Channels |-> IF pc[c] = "done" THEN live[c] ELSE 1]
  /\ race' = [c \in Channels |-> "none"]
  /\ UNCHANGED <<up, loaded, exc, logged, tracked, data, file>>

\* reboot without _stop_pollers: the tasks in _poller_tasks are replaced but
\* not cancelled.
RebootNoStop ==
  /\ loaded
  /\ orphans + Detached <= MaxOrphans
  /\ orphans' = orphans + Detached
  /\ pc' = [c \in Channels |-> "fetch"]
  /\ outcome' = [c \in Channels |-> "pending"]
  /\ exc' = [c \in Channels |-> None]
  /\ logged' = [c \in Channels |-> None]
  /\ info' = [c \in Channels |-> None]
  /\ last' = [c \in Channels |-> None]
  /\ before' = [c \in Channels |-> None]
  /\ dec' = [c \in Channels |-> "none"]
  /\ fired' = [c \in Channels |-> 0]
  /\ gap' = [c \in Channels |-> -1]
  /\ retries' = [c \in Channels |-> 0]
  /\ sleeps' = [c \in Channels |-> -1]
  /\ live' = [c \in Channels |-> live[c] + 1]
  /\ race' = [c \in Channels |-> "none"]
  /\ UNCHANGED <<up, loaded, tracked, data, file>>

\* Poller.reboot (on_ready, revive): _stop_pollers then _create_pollers.
Reboot ==
  /\ loaded
  /\ orphans + Detached <= MaxOrphans
  /\ orphans' = orphans + Detached
  /\ pc' = [c \in Channels |-> "fetch"]
  /\ outcome' = [c \in Channels |-> "pending"]
  /\ exc' = [c \in Channels |-> None]
  /\ logged' = [c \in Channels |-> None]
  /\ info' = [c \in Channels |-> None]
  /\ last' = [c \in Channels |-> None]
  /\ before' = [c \in Channels |-> None]
  /\ dec' = [c \in Channels |-> "none"]
  /\ fired' = [c \in Channels |-> 0]
  /\ gap' = [c \in Channels |-> -1]
  /\ retries' = [c \in Channels |-> 0]
  /\ sleeps' = [c \in Channels |-> -1]
  /\ live' = [c \in Channels |-> Stopped(c) + 1]
  /\ race' = [c \in Channels |-> "none"]
  /\ UNCHANGED <<up, loaded, tracked, data, file>>

\* Poller.__unload: _stop_pollers, and the cog's listeners and commands go.
Unload ==
  /\ loaded
  /\ orphans + Detached <= MaxOrphans
  /\ orphans' = orphans + Detached
  /\ loaded' = FALSE
  /\ pc' = [c \in Channels |-> IF pc[c] \in Running THEN "done" ELSE pc[c]]
  /\ outcome' = [c \in Channels |->
                   IF pc[c] \in Running THEN "cancelled" ELSE outcome[c]]
  /\ info' = [c \in Channels |-> IF pc[c] \in Running THEN None ELSE info[c]]
  /\ last' = [c \in Channels |-> IF pc[c] \in Running THEN None ELSE last[c]]
  /\ before' = [c \in Channels |-> IF pc[c] \in Running THEN None ELSE before[c]]
  /\ dec' = [c \in Channels |-> IF pc[c] \in Running THEN "none" ELSE dec[c]]
  /\ fired' = [c \in Channels |-> IF pc[c] \in Running THEN 0 ELSE fired[c]]
  /\ gap' = [c \in Channels |-> IF pc[c] \in Running THEN -1 ELSE gap[c]]
  /\ retries' = [c \in Channels |-> 0]
  /\ sleeps' = [c \in Channels |-> -1]
  /\ live' = [c \in Channels |-> Stopped(c)]
  /\ race' = [c \in Channels |-> "none"]
  /\ UNCHANGED <<up, exc, logged, tracked, data, file>>

\* ------------------------------------------------------------- poll loop
\* A break that ends the loop of every channel's poller.
BreakAll(c, error) ==
  /\ pc' = [d \in Channels |-> IF pc[d] \in Running THEN "done" ELSE pc[d]]
  /\ outcome' = [d \in Channels |->
                   IF pc[d] \in Running THEN "returned" ELSE outcome[d]]
  /\ exc' = [exc EXCEPT ![c] = None]
  /\ logged' = [logged EXCEPT ![c] = error]
  /\ retries' = [retries EXCEPT ![c] = 0]
  /\ sleeps' = [sleeps EXCEPT ![c] = -1]
  /\ ResetCycle(c)
  /\ live' = [d \in Channels |-> 0]
  /\ race' = [d \in Channels |-> "none"]
  /\ UNCHANGED <<up, loaded, tracked, data, file, orphans>>

\* The loop is left by break: the coroutine returns, the task is done with
\* no exception; the error was logged.
Break(c, error) ==
  /\ pc' = [pc EXCEPT ![c] = "done"]
  /\ outcome' = [outcome EXCEPT ![c] = "returned"]
  /\ exc' = [exc EXCEPT ![c] = None]
  /\ logged' = [logged EXCEPT ![c] = error]
  /\ retries' = [retries EXCEPT ![c] = 0]
  /\ sleeps' = [sleeps EXCEPT ![c] = -1]
  /\ ResetCycle(c)
  /\ live' = [live EXCEPT ![c] = live[c] - 1]
  /\ race' = [race EXCEPT ![c] = "none"]
  /\ UNCHANGED <<up, loaded, tracked, data, file, orphans>>

\* An exception no except clause of _poll names leaves the coroutine: the
\* task is done with that exception.
Raise(c, error) ==
  /\ pc' = [pc EXCEPT ![c] = "done"]
  /\ outcome' = [outcome EXCEPT ![c] = "raised"]
  /\ exc' = [exc EXCEPT ![c] = error]
  /\ retries' = [retries EXCEPT ![c] = 0]
  /\ sleeps' = [sleeps EXCEPT ![c] = -1]
  /\ ResetCycle(c)
  /\ live' = [live EXCEPT ![c] = live[c] - 1]
  /\ race' = [race EXCEPT ![c] = "none"]
  /\ UNCHANGED <<up, loaded, logged, tracked, data, orphans>>

\* A timeout handler that gives up at the second timeout in a row.
RetryOnce(c) ==
  IF retries[c] >= 1
    THEN Break(c, "TimeoutError")
    ELSE /\ pc' = [pc EXCEPT ![c] = "fetch"]
         /\ retries' = [retries EXCEPT ![c] = retries[c] + 1]
         /\ UNCHANGED <<up, loaded, live, outcome, exc, logged, cycleVars, tracked,
                        sleeps, data, file, orphans, race>>

\* except asyncio.TimeoutError: continue.
Retry(c) ==
  /\ pc' = [pc EXCEPT ![c] = "fetch"]
  /\ retries' = [retries EXCEPT ![c] =
                   IF retries[c] < MaxRetries THEN retries[c] + 1 ELSE MaxRetries]
  /\ UNCHANGED <<up, loaded, live, outcome, exc, logged, cycleVars, tracked, sleeps,
                 data, file, orphans, race>>

\* One pass of get_release_build_information ends in asyncio.TimeoutError,
\* at the login page or at the main asset.
FetchTimeout(c) ==
  /\ pc[c] = "fetch"
  /\ Retry(c)

\* One of the two GETs raises an aiohttp.ClientError.
FetchClientError(c) ==
  /\ pc[c] = "fetch"
  /\ c \in up
  /\ Break(c, "ClientError")

\* The login page answers with a status other than 200, or with 200 and a
\* body in which SCRIPT_TAG_REGEX matches nothing.
FetchNoTags(c) ==
  /\ pc[c] = "fetch"
  /\ c \in up
  /\ \E code \in {200, 404}, n \in 0..MaxTags :
       /\ code # 200 \/ n = 0
       /\ Break(c, "ReleaseExtractorError")

\* The login page answers 200 with a single matching tag: hashes[1] raises.
FetchOneTag(c) ==
  /\ pc[c] = "fetch"
  /\ c \in up
  /\ \E n \in 1..MaxTags :
       /\ n < 2
       /\ Raise(c, "IndexError")
       /\ UNCHANGED file

\* The main asset's body holds no release marker.
FetchNoMarker(c) ==
  /\ pc[c] = "fetch"
  /\ c \in up
  /\ \E n \in 2..MaxTags : Break(c, "ReleaseExtractorError")

\* put of channel c changes _data while the thread of another task is inside
\* _save: what that thread has serialised, or will, may be the mapping
\* without c's new value.
Overtaken(c) ==
  [d \in Channels |->
     IF d # c /\ pc[d] = "saving" /\ race[d] = "none" THEN "stale" ELSE race[d]]

\* The thread of channel c closes the file while the thread of another task
\* still has it open with a buffer that may lack c's value: that thread's
\* close will write its buffer over what c wrote.
Crossed(c) ==
  [d \in Channels |->
     IF d = c THEN "none"
     ELSE IF pc[d] = "saving" /\ race[d] = "stale" THEN "over" ELSE race[d]]

\* What the file holds when the thread of channel c closes it: the JSON of
\* the mapping, or, when c's buffer went over the longer write of another
\* thread, bytes that are the JSON of no mapping.
Closed(c) == IF race[c] = "over" THEN {Written(data), Clobbered} ELSE {Written(data)}

\* track that stores the build in its stale branch too.
TrackAlwaysStores(c, b) ==
  /\ info' = [info EXCEPT ![c] = b]
  /\ last' = [last EXCEPT ![c] = Get(data, Key(c))]
  /\ before' = [before EXCEPT ![c] = tracked[c]]
  /\ tracked' = [tracked EXCEPT ![c] = b]
  /\ data' = Put(data, Key(c), b)
  /\ dec' = [dec EXCEPT ![c] =
               IF IsNewBuild(Get(data, Key(c)), b) THEN "New" ELSE "Stale"]
  /\ pc' = [pc EXCEPT ![c] = "put"]
  /\ race' = Overtaken(c)
  /\ UNCHANGED <<fired, file, orphans>>

\* ReleaseTracker.track up to its first suspension, on release_build b.
Track(c, b) ==
  /\ info' = [info EXCEPT ![c] = b]
  /\ last' = [last EXCEPT ![c] = Get(data, Key(c))]
  /\ before' = [before EXCEPT ![c] = tracked[c]]
  /\ tracked' = [tracked EXCEPT ![c] = b]
  /\ IF IsNewBuild(Get(data, Key(c)), b)
       THEN /\ data' = Put(data, Key(c), b)
            /\ dec' = [dec EXCEPT ![c] = "New"]
            /\ pc' = [pc EXCEPT ![c] = "put"]
            /\ race' = Overtaken(c)
       ELSE /\ data' = data
            /\ dec' = [dec EXCEPT ![c] = "Stale"]
            /\ pc' = [pc EXCEPT ![c] = "sleep"]
            /\ race' = race
  /\ UNCHANGED <<fired, file, orphans>>

\* The main asset's body holds the marker of build b: the descriptor is
\* returned and tracked.
FetchOk(c) ==
  /\ pc[c] = "fetch"
  /\ c \in up
  /\ \E b \in Builds : Track(c, b)
  /\ gap' = [gap EXCEPT ![c] = sleeps[c]]
  /\ sleeps' = [sleeps EXCEPT ![c] = 0]
  /\ retries' = [retries EXCEPT ![c] = 0]
  /\ UNCHANGED <<up, loaded, live, outcome, exc, logged>>

\* The executor thread enters _save: open(file_name, 'w') truncates the file.
SaveOpen(c) ==
  /\ pc[c] = "put"
  /\ pc' = [pc EXCEPT ![c] = "saving"]
  /\ file' = Truncated
  /\ UNCHANGED <<up, loaded, live, outcome, exc, logged, cycleVars, tracked, retries,
                 sleeps, data, orphans, race>>

\* open raises (OSError): save raises, and so do put and track.
SaveOpenFail(c) ==
  /\ pc[c] = "put"
  /\ Raise(c, "OSError")
  /\ UNCHANGED file

\* A loop that goes on to the next fetch without its sleep.
SaveDoneNoSleep(c) ==
  /\ pc[c] = "saving"
  /\ file' \in Closed(c)
  /\ race' = Crossed(c)
  /\ fired' = [fired EXCEPT ![c] = fired[c] + 1]
  /\ pc' = [pc EXCEPT ![c] = "fetch"]
  /\ UNCHANGED <<up, loaded, live, outcome, exc, logged, info, last, before, dec, gap,
                 tracked, retries, sleeps, data, orphans>>

\* json.dump and close finish; put and track resume: the event is dispatched
\* and the loop goes to sleep.
SaveDone(c) ==
  /\ pc[c] = "saving"
  /\ file' \in Closed(c)
  /\ race' = Crossed(c)
  /\ fired' = [fired EXCEPT ![c] = fired[c] + 1]
  /\ pc' = [pc EXCEPT ![c] = "sleep"]
  /\ UNCHANGED <<up, loaded, live, outcome, exc, logged, info, last, before, dec, gap,
                 tracked, retries, sleeps, data, orphans>>

\* The write raises after the file was truncated.
SaveFail(c) ==
  /\ pc[c] = "saving"
  /\ Raise(c, "OSError")
  /\ UNCHANGED file

\* asyncio.sleep(poll_interval) is over: the next iteration starts.
Wake(c) ==
  /\ pc[c] = "sleep"
  /\ pc' = [pc EXCEPT ![c] = "fetch"]
  /\ sleeps' = [sleeps EXCEPT ![c] = sleeps[c] + 1]
  /\ ResetCycle(c)
  /\ UNCHANGED <<up, loaded, live, outcome, exc, logged, tracked, retries, data, file,
                 orphans, race>>

\* A thread whose poller was cancelled finishes its write.
OrphanDone ==
  /\ orphans > 0
  /\ orphans' = orphans - 1
  /\ file' = Written(data)
  /\ UNCHANGED <<up, loaded, live, pc, outcome, exc, logged, cycleVars, tracked, retries,
                 sleeps, data, race>>

\* A thread whose poller was cancelled fails in its write.
OrphanFail ==
  /\ orphans > 0
  /\ orphans' = orphans - 1
  /\ UNCHANGED <<up, loaded, live, pc, outcome, exc, logged, cycleVars, tracked, retries,
                 sleeps, data, file, race>>

\* Task.done() of the task in _poller_tasks, as health reads it.
TaskDone(c) == pc[c] = "done"

\* Task.exception() of the task in _poller_tasks, as error and errors read
\* it: the exception it raises, or the value it returns.
TaskException(c) ==
  CASE outcome[c] = "raised" -> exc[c]
    [] outcome[c] = "returned" -> None
    [] outcome[c] = "cancelled" -> "CancelledError"
    [] OTHER -> "InvalidStateError"

\* ------------------------------------------------- fetching, step by step
\* Hashes of assets, as SCRIPT_TAG_REGEX captures them.
AssetHashes == {"a1", "b2", "c3"}

\* An element of a login page: a script tag SCRIPT_TAG_REGEX matches, with
\* its hash, or an element it does not match (a stylesheet link, a script
\* tag with no attribute after src).
Script(h) == [tag |-> "script", hash |-> h]
Unmatched == [tag |-> "link", hash |-> "d4"]

Elements == {Script(h) : h \in AssetHashes} \cup {Unmatched}

\* The bodies a login page may have.
Bodies == UNION {[1..n -> Elements] : n \in 0..MaxTags}

\* SCRIPT_TAG_REGEX.findall(body): the captured group of every match, in
\* the order of the matches.
FindAll(b) ==
  LET matches == SelectSeq(b, LAMBDA e : e.tag = "script")
  IN  [i \in 1..Len(matches) |-> matches[i].hash]

\* ReleaseHashes(vendor=hashes[0], main=hashes[1]), a tuple of two fields.
ReleaseHashes(matched) == <<matched[1], matched[2]>>

\* release_hashes.main.
Main(release_hashes) == release_hashes[2]

\* Poller.get_login_page.
get_login_page(c) ==
  IF c = "STABLE"
    THEN "https://" \o "" \o "discordapp.com/login"
    ELSE "https://" \o (Lower(c) \o ".") \o "discordapp.com/login"

\* get_asset_url with the bare domain for every channel.
get_asset_url_bare(c, asset_hash) ==
  "https://" \o "" \o "discordapp.com/assets/" \o asset_hash \o ".js"

\* Poller.get_asset_url.
get_asset_url(c, asset_hash) ==
  IF c = "STABLE"
    THEN "https://" \o "" \o "discordapp.com/assets/" \o asset_hash \o ".js"
    ELSE "https://" \o (Lower(c) \o ".") \o "discordapp.com/assets/"
           \o asset_hash \o ".js"

\* No call of get_release_build_information is followed.
FetchIdle ==
  /\ fch = None
  /\ fpc = "idle"
  /\ reqs = <<>>
  /\ status = 0
  /\ body = <<>>
  /\ hashes = <<>>
  /\ marker = None
  /\ ferr = None

\* on_ready: the first boot of the pollers.
FirstBoot ==
  /\ \A c \in Channels : pc[c] = "none"
  /\ Reboot
  /\ UNCHANGED gvars

\* _poll of channel c calls get_release_build_information: the GET of the
\* login page is sent.
GetLogin(c) ==
  /\ fpc = "idle"
  /\ fch \in {None, c}
  /\ pc[c] = "fetch"
  /\ fch' = c
  /\ fpc' = "login"
  /\ reqs' = <<get_login_page(c)>>
  /\ status' = 0
  /\ body' = <<>>
  /\ hashes' = <<>>
  /\ marker' = None
  /\ ferr' = None
  /\ UNCHANGED pvars

\* The GET of the login page times out.
LoginTimeout ==
  /\ fpc = "login"
  /\ FetchTimeout(fch)
  /\ fpc' = "idle"
  /\ ferr' = "TimeoutError"
  /\ UNCHANGED <<fch, reqs, status, body, hashes, marker>>

\* The GET of the login page raises an aiohttp.ClientError.
LoginClientError ==
  /\ fpc = "login"
  /\ FetchClientError(fch)
  /\ fpc' = "end"
  /\ ferr' = "ClientError"
  /\ UNCHANGED <<fch, reqs, status, body, hashes, marker>>

\* A login page whose status is taken for 200 whatever it is.
LoginStatusIgnored ==
  /\ fpc = "login"
  /\ fch \in up
  /\ \E b \in Bodies :
       /\ Len(FindAll(b)) >= 2
       /\ status' = 404
       /\ body' = b
       /\ hashes' = ReleaseHashes(FindAll(b))
       /\ reqs' = Append(reqs, get_asset_url(fch, Main(hashes')))
  /\ fpc' = "asset"
  /\ UNCHANGED <<fch, marker, ferr>>
  /\ UNCHANGED pvars

\* The login page answers with a status other than 200.
LoginStatus ==
  /\ fpc = "login"
  /\ \E b \in Bodies :
       /\ status' = 404
       /\ body' = b
  /\ FetchNoTags(fch)
  /\ fpc' = "end"
  /\ ferr' = "ReleaseExtractorError"
  /\ UNCHANGED <<fch, reqs, hashes, marker>>

\* The login page answers 200 and SCRIPT_TAG_REGEX matches nothing.
LoginNoTags ==
  /\ fpc = "login"
  /\ \E b \in Bodies :
       /\ FindAll(b) = <<>>
       /\ status' = 200
       /\ body' = b
  /\ FetchNoTags(fch)
  /\ fpc' = "end"
  /\ ferr' = "ReleaseExtractorError"
  /\ UNCHANGED <<fch, reqs, hashes, marker>>

\* The login page answers 200 with one match: hashes[1] raises IndexError.
LoginOneTag ==
  /\ fpc = "login"
  /\ \E b \in Bodies :
       /\ Len(FindAll(b)) = 1
       /\ status' = 200
       /\ body' = b
  /\ FetchOneTag(fch)
  /\ fpc' = "end"
  /\ ferr' = "IndexError"
  /\ UNCHANGED <<fch, reqs, hashes, marker>>

\* The login page answers 200 with two matches or more: release_hashes is
\* built and the GET of the main asset is sent.
LoginOk ==
  /\ fpc = "login"
  /\ fch \in up
  /\ \E b \in Bodies :
       /\ Len(FindAll(b)) >= 2
       /\ status' = 200
       /\ body' = b
       /\ hashes' = ReleaseHashes(FindAll(b))
       /\ reqs' = Append(reqs, get_asset_url(fch, Main(hashes')))
  /\ fpc' = "asset"
  /\ UNCHANGED <<fch, marker, ferr>>
  /\ UNCHANGED pvars

\* The GET of the main asset times out (timeout=10).
AssetTimeout ==
  /\ fpc = "asset"
  /\ FetchTimeout(fch)
  /\ fpc' = "idle"
  /\ ferr' = "TimeoutError"
  /\ UNCHANGED <<fch, reqs, status, body, hashes, marker>>

\* The GET of the main asset raises an aiohttp.ClientError.
AssetClientError ==
  /\ fpc = "asset"
  /\ FetchClientError(fch)
  /\ fpc' = "end"
  /\ ferr' = "ClientError"
  /\ UNCHANGED <<fch, reqs, status, body, hashes, marker>>

\* RELEASE_BUILD_REGEX finds nothing in the main asset.
AssetNoMarker ==
  /\ fpc = "asset"
  /\ marker' = None
  /\ FetchNoMarker(fch)
  /\ fpc' = "end"
  /\ ferr' = "ReleaseExtractorError"
  /\ UNCHANGED <<fch, reqs, status, body, hashes>>

\* RELEASE_BUILD_REGEX finds a build: the descriptor is returned and _poll
\* calls track with it.
AssetOk ==
  /\ fpc = "asset"
  /\ FetchOk(fch)
  /\ marker' = info'[fch]
  /\ fpc' = "end"
  /\ UNCHANGED <<fch, reqs, status, body, hashes, ferr>>

\* ---------------------------------------------------------------- notifier
\* The channel ids of cfg['feeds'], in the order feeds.items() yields them.
Registry == <<"d1", "d2", "d3">>

Dests == {Registry[i] : i \in DOMAIN Registry}

\* The lists of names a feed may be configured with.
FeedLists == {{}, {"stable"}, {"Stable"}, {"canary", "ptb"}}

\* What a destination does: get_channel finds no channel ("missing"), or
\* send returns ("ok"), or send raises discord.Forbidden or discord.NotFound
\* (both discord.HTTPException), or send raises an aiohttp.ClientError.
Reaches == {"missing", "ok", "Forbidden", "NotFound", "ClientError"}

\* except discord.HTTPException.
IsCaught(error) == error \in {"Forbidden", "NotFound", "HTTPException"}

\* release.channel.name.lower() in feeds.
IsSubscribed(names, channel) == Lower(channel) \in names

\* No handler: the notifier's variables while the pollers run.
NotifierIdle ==
  /\ ready = FALSE
  /\ rel = None
  /\ feeds = [d \in Dests |-> {}]
  /\ reach = [d \in Dests |-> "ok"]
  /\ hpc = "none"
  /\ idx = 0
  /\ attempts = [d \in Dests |-> 0]

\* dispatch('new_build', release) has scheduled on_new_build.
NotifierInit ==
  /\ ready \in BOOLEAN
  /\ rel \in Channels
  /\ feeds \in [Dests -> FeedLists]
  /\ reach \in [Dests -> Reaches]
  /\ hpc = "waiting"
  /\ idx = 0
  /\ attempts = [d \in Dests |-> 0]

\* The bot becomes ready.
BecomeReady ==
  /\ ~ready
  /\ ready' = TRUE
  /\ UNCHANGED <<rel, feeds, reach, hpc, idx, attempts>>

\* wait_until_ready returns: the handler enters its loop over the feeds.
HandlerWake ==
  /\ hpc = "waiting"
  /\ ready
  /\ hpc' = "running"
  /\ idx' = 1
  /\ UNCHANGED <<ready, rel, feeds, reach, attempts>>

\* One iteration of the loop over feeds.items().
Visit ==
  /\ hpc = "running"
  /\ idx \in DOMAIN Registry
  /\ LET d == Registry[idx] IN
       IF reach[d] = "missing" \/ ~IsSubscribed(feeds[d], rel)
         THEN /\ idx' = idx + 1
              /\ UNCHANGED <<hpc, attempts>>
         ELSE /\ attempts' = [attempts EXCEPT ![d] = attempts[d] + 1]
              /\ IF reach[d] = "ok" \/ IsCaught(reach[d])
                   THEN idx' = idx + 1 /\ UNCHANGED hpc
                   ELSE hpc' = "raised" /\ UNCHANGED idx
  /\ UNCHANGED <<ready, rel, feeds, reach>>

\* The loop is over: on_new_build returns.
HandlerReturn ==
  /\ hpc = "running"
  /\ idx \notin DOMAIN Registry
  /\ hpc' = "done"
  /\ UNCHANGED <<ready, rel, feeds, reach, idx, attempts>>

\* ------------------------------------------- from detection to delivery
\* The channel whose poller is followed through to the handlers it causes.
Followed == "CANARY"

\* No new_build event has been dispatched.
FlowIdle ==
  /\ found = <<>>
  /\ handlers = <<>>
  /\ sent = <<>>
  /\ runq = <<>>

\* The configuration and the destinations of a run: every feed lists the
\* followed channel; the first two channel ids are found, and send returns
\* or raises discord.Forbidden; get_channel does not find the third.
FlowConfig ==
  /\ ready = FALSE
  /\ rel = None
  /\ feeds = [d \in Dests |-> {"canary", "ptb"}]
  /\ reach \in [Dests -> {"missing", "ok", "Forbidden"}]
  /\ \A i \in DOMAIN Registry : reach[Registry[i]] = "missing" <=> i = 3
  /\ hpc = "none"
  /\ idx = 0
  /\ attempts = [d \in Dests |-> 0]

\* The handlers suspended in wait_until_ready, in the order they began to
\* wait.
Waiters ==
  SelectSeq([i \in 1..Len(handlers) |-> i], LAMBDA i : handlers[i].hpc = "waiting")

\* on_ready: the bot is ready (for the first time, or again after a
\* reconnect): the handlers that wait are scheduled in their order, and the
\* pollers are rebooted.
FlowReady ==
  /\ ~ready
  /\ ready' = TRUE
  /\ Reboot
  /\ handlers' = [i \in DOMAIN handlers |->
                    IF handlers[i].hpc = "waiting"
                      THEN [handlers[i] EXCEPT !.hpc = "woken"]
                      ELSE handlers[i]]
  /\ runq' = runq \o Waiters
  /\ UNCHANGED <<found, sent>>
  /\ UNCHANGED <<rel, feeds, reach, hpc, idx, attempts>>
  /\ UNCHANGED gvars

\* The connection is lost: the bot is not ready until on_ready comes again.
\* The pollers and the handlers are tasks of the loop and go on.
FlowDisconnect ==
  /\ ready
  /\ ready' = FALSE
  /\ UNCHANGED <<rel, feeds, reach, hpc, idx, attempts>>
  /\ UNCHANGED <<pvars, gvars, hvars>>

\* The loop runs its callbacks in the order they were scheduled: the first
\* step of a task dispatch created comes before the next step of a poller,
\* which waits for the network or a timer.
Started == \A i \in DOMAIN handlers : handlers[i].hpc # "created"

\* The followed poller fetches a descriptor and tracks it.
FlowFetchOk ==
  /\ Started
  /\ FetchOk(Followed)
  /\ dec'[Followed] = "New" => Len(found) < MaxFound
  /\ found' = IF dec'[Followed] = "New"
                THEN Append(found, info'[Followed])
                ELSE found
  /\ UNCHANGED <<handlers, sent, runq>>
  /\ UNCHANGED <<nvars, gvars>>

\* The sleep of the followed poller is over.
FlowWake ==
  /\ Started
  /\ Wake(Followed)
  /\ UNCHANGED <<nvars, gvars, hvars>>

\* bot.dispatch('new_build', release): a task is created for on_new_build
\* and dispatch returns; track returns and _poll goes to sleep.
FlowSaveDone ==
  /\ SaveDone(Followed)
  /\ handlers' = Append(handlers, [det |-> Len(found), ch |-> Followed,
                                   hpc |-> "created", idx |-> 0])
  /\ runq' = Append(runq, Len(handlers) + 1)
  /\ UNCHANGED <<found, sent>>
  /\ UNCHANGED <<nvars, gvars>>

\* The loop of on_new_build reaches channel.send at position j of
\* feeds.items() for a release of channel ch: get_channel finds the channel
\* and the feed lists ch.
Sendable(ch, j) ==
  /\ reach[Registry[j]] # "missing"
  /\ IsSubscribed(feeds[Registry[j]], ch)

\* The position of the first call of send from position k on; past the end
\* of feeds.items() when there is none.
NextSend(ch, k) ==
  IF \E j \in k..Len(Registry) : Sendable(ch, j)
    THEN CHOOSE j \in k..Len(Registry) :
           /\ Sendable(ch, j)
           /\ \A m \in k..(j - 1) : ~Sendable(ch, m)
    ELSE Len(Registry) + 1

\* Handler i runs from position k of its loop to its next suspension: the
\* await of a call of channel.send, or the end of the loop, where
\* on_new_build returns. Nothing is awaited in between.
Proceed(i, k) ==
  LET j == NextSend(handlers[i].ch, k) IN
    IF j \in DOMAIN Registry
      THEN /\ handlers' = [handlers EXCEPT ![i].hpc = "running", ![i].idx = j]
           /\ sent' = Append(sent, [det |-> handlers[i].det, dest |-> Registry[j]])
      ELSE /\ handlers' = [handlers EXCEPT ![i].hpc = "done", ![i].idx = j]
           /\ sent' = sent

\* The first step of the task of handler i, which is the next the loop has
\* scheduled: wait_until_ready returns at once when the bot is ready, and
\* the handler runs on to its first send; else the handler waits.
FlowHandlerStart(i) ==
  /\ runq # <<>>
  /\ i = Head(runq)
  /\ handlers[i].hpc = "created"
  /\ runq' = Tail(runq)
  /\ IF ready
       THEN Proceed(i, 1)
       ELSE /\ handlers' = [handlers EXCEPT ![i].hpc = "waiting"]
            /\ sent' = sent
  /\ UNCHANGED found
  /\ UNCHANGED <<pvars, nvars, gvars>>

\* Handler i, woken when the bot became ready, is the next the loop has
\* scheduled: wait_until_ready returns and the handler runs on to its first
\* send.
FlowHandlerWake(i) ==
  /\ runq # <<>>
  /\ i = Head(runq)
  /\ handlers[i].hpc = "woken"
  /\ runq' = Tail(runq)
  /\ Proceed(i, 1)
  /\ UNCHANGED found
  /\ UNCHANGED <<pvars, nvars, gvars>>

\* A handler that sends again to a channel whose send raised.
FlowVisitAgain(i) ==
  /\ handlers[i].hpc = "running"
  /\ LET d == Registry[handlers[i].idx] IN
       IF reach[d] = "ok"
         THEN Proceed(i, handlers[i].idx + 1)
         ELSE /\ sent' = Append(sent, [det |-> handlers[i].det, dest |-> d])
              /\ handlers' = handlers
  /\ UNCHANGED <<found, runq>>
  /\ UNCHANGED <<pvars, nvars, gvars>>

\* The send handler i awaits is over: it returned, or it raised a
\* discord.HTTPException, which is logged, and the loop goes on; any other
\* exception leaves on_new_build.
FlowVisit(i) ==
  /\ handlers[i].hpc = "running"
  /\ LET d == Registry[handlers[i].idx] IN
       IF reach[d] = "ok" \/ IsCaught(reach[d])
         THEN Proceed(i, handlers[i].idx + 1)
         ELSE /\ handlers' = [handlers EXCEPT ![i].hpc = "raised"]
              /\ sent' = sent
  /\ UNCHANGED <<found, runq>>
  /\ UNCHANGED <<pvars, nvars, gvars>>

\* ---------------------------------------------------------- specifications
Init == PollerInit /\ NotifierIdle /\ FetchIdle /\ FlowIdle

Next ==
  \/ Reboot /\ UNCHANGED <<nvars, gvars, hvars>>
  \/ Unload /\ UNCHANGED <<nvars, gvars, hvars>>
  \/ OrphanDone /\ UNCHANGED <<nvars, gvars, hvars>>
  \/ OrphanFail /\ UNCHANGED <<nvars, gvars, hvars>>
  \/ \E c \in Channels : FetchTimeout(c) /\ UNCHANGED <<nvars, gvars, hvars>>
  \/ \E c \in Channels : FetchClientError(c) /\ UNCHANGED <<nvars, gvars, hvars>>
  \/ \E c \in Channels : FetchNoTags(c) /\ UNCHANGED <<nvars, gvars, hvars>>
  \/ \E c \in Channels : FetchOneTag(c) /\ UNCHANGED <<nvars, gvars, hvars>>
  \/ \E c \in Channels : FetchNoMarker(c) /\ UNCHANGED <<nvars, gvars, hvars>>
  \/ \E c \in Channels : FetchOk(c) /\ UNCHANGED <<nvars, gvars, hvars>>
  \/ \E c \in Channels : SaveOpen(c) /\ UNCHANGED <<nvars, gvars, hvars>>
  \/ \E c \in Channels : SaveOpenFail(c) /\ UNCHANGED <<nvars, gvars, hvars>>
  \/ \E c \in Channels : SaveDone(c) /\ UNCHANGED <<nvars, gvars, hvars>>
  \/ \E c \in Channels : SaveFail(c) /\ UNCHANGED <<nvars, gvars, hvars>>
  \/ \E c \in Channels : Wake(c) /\ UNCHANGED <<nvars, gvars, hvars>>

Spec == Init /\ [][Next]_vars

InitNotify ==
  PollerInit /\ up = {"CANARY", "STABLE"} /\ NotifierInit /\ FetchIdle /\ FlowIdle

NextNotify ==
  \/ BecomeReady /\ UNCHANGED <<pvars, gvars, hvars>>
  \/ HandlerWake /\ UNCHANGED <<pvars, gvars, hvars>>
  \/ Visit /\ UNCHANGED <<pvars, gvars, hvars>>
  \/ HandlerReturn /\ UNCHANGED <<pvars, gvars, hvars>>

SpecNotify == InitNotify /\ [][NextNotify]_vars

InitFetch ==
  PollerInit /\ up = {"CANARY", "STABLE"} /\ NotifierIdle /\ FetchIdle /\ FlowIdle

NextFetch ==
  \/ FirstBoot /\ UNCHANGED <<nvars, hvars>>
  \/ \E c \in Channels : GetLogin(c) /\ UNCHANGED <<nvars, hvars>>
  \/ LoginTimeout /\ UNCHANGED <<nvars, hvars>>
  \/ LoginClientError /\ UNCHANGED <<nvars, hvars>>
  \/ LoginStatus /\ UNCHANGED <<nvars, hvars>>
  \/ LoginNoTags /\ UNCHANGED <<nvars, hvars>>
  \/ LoginOneTag /\ UNCHANGED <<nvars, hvars>>
  \/ LoginOk /\ UNCHANGED <<nvars, hvars>>
  \/ AssetTimeout /\ UNCHANGED <<nvars, hvars>>
  \/ AssetClientError /\ UNCHANGED <<nvars, hvars>>
  \/ AssetNoMarker /\ UNCHANGED <<nvars, hvars>>
  \/ AssetOk /\ UNCHANGED <<nvars, hvars>>

SpecFetch == InitFetch /\ [][NextFetch]_vars

InitFlow ==
  PollerInit /\ up = {"CANARY", "STABLE"} /\ FlowConfig /\ FetchIdle /\ FlowIdle

NextFlow ==
  \/ FlowReady
  \/ FlowDisconnect
  \/ FlowFetchOk
  \/ SaveOpen(Followed) /\ UNCHANGED <<nvars, gvars, hvars>>
  \/ FlowSaveDone
  \/ FlowWake
  \/ OrphanDone /\ UNCHANGED <<nvars, gvars, hvars>>
  \/ \E i \in DOMAIN handlers : FlowHandlerStart(i)
  \/ \E i \in DOMAIN handlers : FlowHandlerWake(i)
  \/ \E i \in DOMAIN handlers : FlowVisit(i)

SpecFlow == InitFlow /\ [][NextFlow]_vars

\* A step of the followed channel's poller task.
PollerStep ==
  \/ FlowFetchOk
  \/ SaveOpen(Followed) /\ UNCHANGED <<nvars, gvars, hvars>>
  \/ FlowSaveDone
  \/ FlowWake

\* A step of the task of handler i.
HandlerStep(i) ==
  /\ i \in DOMAIN handlers
  /\ FlowHandlerStart(i) \/ FlowHandlerWake(i) \/ FlowVisit(i)

\* The event loop runs every task that can go on, the servers of the
\* followed channel answer, sleeps end and executor threads finish; when
\* the connection is lost or comes back is the environment's choice.
FlowFairness ==
  /\ WF_vars(PollerStep)
  /\ WF_vars(OrphanDone /\ UNCHANGED <<nvars, gvars, hvars>>)
  /\ \A i \in 1..MaxFound : WF_vars(HandlerStep(i))

SpecFlowFair == InitFlow /\ [][NextFlow]_vars /\ FlowFairness

\* ------------------------------------------------------------------ claims
\* A step of Reboot or Unload: every pending task is cancelled.
Cancelling == Reboot \/ Unload

\* C1: track decides New exactly when the value stored under the channel's
\* key is absent or is another string than the build id (a smaller id
\* included), and Stale otherwise; the value it reads is the build of the
\* track call before it on that channel; on New the stored value is the
\* build id, and the call that returns has dispatched one new_build event,
\* while a Stale call dispatches none.
C1_NewIffDifferent ==
  \A c \in Channels :
    /\ dec[c] # "none" =>
         /\ last[c] = before[c]
         /\ (dec[c] = "New") <=> (last[c] = None \/ last[c] # info[c])
    /\ dec[c] = "New" => Get(data, Key(c)) = info[c]
    /\ (dec[c] = "New" /\ pc[c] = "sleep") => fired[c] = 1
    /\ (dec[c] = "New" /\ pc[c] # "sleep") => fired[c] = 0
    /\ dec[c] = "Stale" => fired[c] = 0

\* A smaller build id after a larger one was New and was dispatched.
C1_Witness ==
  \E c \in Channels :
    /\ pc[c] = "sleep"
    /\ dec[c] = "New"
    /\ last[c] = "10"
    /\ info[c] = "9"
    /\ fired[c] = 1

C3_StaleChangesNothing ==
  [][\A c \in Channels :
       /\ (dec[c] = "none" /\ dec'[c] = "Stale") =>
            /\ pc'[c] = "sleep"
            /\ UNCHANGED <<data, file, orphans, fired, nvars>>
       /\ dec[c] = "Stale" => fired'[c] = 0]_vars

C3_Witness ==
  \E c \in Channels :
    /\ pc[c] = "sleep"
    /\ dec[c] = "Stale"
    /\ file = Written(data)
    /\ fired[c] = 0

\* C4: the keys of distinct channels are distinct; no step of a track call
\* on channel a changes the value stored under the key of another channel
\* b; and the value stored under a channel's key is always the build of the
\* latest track call on that very channel.
C4_KeysApart ==
  [][\A a \in Channels :
       /\ Get(data, Key(a)) = tracked[a]
       /\ Get(data', Key(a)) = tracked'[a]
       /\ \A b \in Channels \ {a} :
            /\ Key(a) # Key(b)
            /\ (pc'[a] # pc[a] /\ ~Cancelling) =>
                 Get(data', Key(b)) = Get(data, Key(b))]_vars

\* A track on one channel stored its build while another channel holds a
\* different one.
C4_Witness ==
  \E a \in Channels : \E b \in Channels \ {a} :
    /\ dec[a] = "New"
    /\ pc[a] = "sleep"
    /\ Get(data, Key(b)) \in Builds
    /\ Get(data, Key(b)) # Get(data, Key(a))

\* C5: a poller whose loop logged a non-timeout error and left is a failed
\* task whose exception is that error.
C5_FailedTaskHoldsError ==
  \A c \in Channels :
    logged[c] # None =>
      /\ TaskDone(c)
      /\ outcome[c] = "raised"
      /\ TaskException(c) = logged[c]

\* C6: a step that adds a timeout to a poller's count (or leaves the count
\* at its top) leaves the poller pending at its next fetch: no sleep was
\* counted, track did not run, nothing was stored or dispatched for the
\* channel, and the timeout itself changes neither the mapping nor the
\* file. A fetching poller ends only by cancellation, by a logged
\* extractor or client error or by a raised IndexError, never by a timeout,
\* and it goes to sleep only from a track call that decided Stale.
C6_TimeoutRetriesAtOnce ==
  [][\A c \in Channels :
       /\ (pc[c] = "fetch" /\ retries'[c] > 0 /\ retries'[c] >= retries[c]) =>
            /\ pc'[c] = "fetch"
            /\ outcome'[c] = "pending"
            /\ ~TaskDone(c)'
            /\ sleeps'[c] = sleeps[c]
            /\ dec'[c] = "none"
            /\ tracked'[c] = tracked[c]
            /\ fired'[c] = 0
            /\ Get(data', Key(c)) = Get(data, Key(c))
            /\ retries'[c] > retries[c] =>
                 UNCHANGED <<data, file, orphans, fired, nvars>>
       /\ (pc[c] = "fetch" /\ TaskDone(c)') =>
            \/ Cancelling
            \/ logged'[c] \in {"ReleaseExtractorError", "ClientError"}
            \/ exc'[c] = "IndexError"
       /\ (pc[c] = "fetch" /\ pc'[c] = "sleep") => dec'[c] = "Stale"]_vars

\* Two timeouts in a row, and the poller is at its next fetch.
C6_Witness ==
  \E c \in Channels :
    /\ retries[c] >= 2
    /\ pc[c] = "fetch"
    /\ outcome[c] = "pending"

\* C7: when track returns the poller sleeps (a Stale decision goes to sleep
\* at once, a finished write goes to sleep); a sleep ends only in the next
\* fetch of the same task or in a cancellation; a running poller ends only
\* by cancellation or with an error logged or raised; and whenever a task
\* fetches a descriptor it is its first one or exactly one sleep has ended
\* since its previous one.
C7_SleepBetweenFetches ==
  [][\A c \in Channels :
       /\ gap[c] \in {-1, 1}
       /\ gap'[c] \in {-1, 1}
       /\ (dec[c] = "none" /\ dec'[c] = "Stale") => pc'[c] = "sleep"
       /\ (pc[c] = "saving" /\ pc'[c] # "saving" /\ ~Cancelling
             /\ exc'[c] = None) => pc'[c] = "sleep"
       /\ (pc[c] = "sleep" /\ pc'[c] # "sleep" /\ ~Cancelling) =>
            /\ pc'[c] = "fetch"
            /\ outcome'[c] = "pending"
            /\ sleeps'[c] = sleeps[c] + 1
       /\ (pc[c] \in Running /\ pc'[c] = "done") =>
            \/ Cancelling
            \/ logged'[c] # None
            \/ exc'[c] # None]_vars

\* A task fetched a second descriptor, one sleep after its first.
C7_Witness ==
  \E c \in Channels :
    /\ gap[c] = 1
    /\ pc[c] = "sleep"

\* C8: a poller that is done stays done, and nothing is fetched, tracked,
\* stored or dispatched for its channel, in every step but a reboot; a
\* reboot puts a pending poller at its first fetch for every channel.
C8_NoAutoRestart ==
  [][\A c \in Channels :
       /\ (TaskDone(c) /\ ~Reboot) =>
            /\ TaskDone(c)'
            /\ outcome'[c] = outcome[c]
            /\ info'[c] = None
            /\ dec'[c] = "none"
            /\ fired'[c] = 0
            /\ tracked'[c] = tracked[c]
            /\ Get(data', Key(c)) = Get(data, Key(c))
       /\ (TaskDone(c) /\ Reboot) =>
            /\ pc'[c] = "fetch"
            /\ outcome'[c] = "pending"]_vars

\* One poller is done after an error while another one goes on polling.
C8_Witness ==
  \E c \in Channels : \E d \in Channels \ {c} :
    /\ TaskDone(c)
    /\ outcome[c] \in {"returned", "raised"}
    /\ pc[d] = "sleep"
    /\ gap[d] = 1

\* C9: a delivery failure at one destination neither fails the handler nor
\* keeps another destination from its delivery: the handler never ends in an
\* exception, and once it has ended every destination that get_channel
\* finds and that subscribes to the release's channel has had exactly one
\* delivery attempt.
C9_FanOutIsolated ==
  /\ hpc # "raised"
  /\ hpc \in {"done", "raised"} =>
       \A d \in Dests :
         (reach[d] # "missing" /\ IsSubscribed(feeds[d], rel)) =>
           attempts[d] = 1

\* C10: when the handler has returned, a destination that get_channel finds
\* has had a delivery attempt exactly if its list holds the name of the
\* release's channel in some spelling of upper and lower case.
C10_AnyCaseMatches ==
  hpc = "done" =>
    \A d \in Dests :
      reach[d] # "missing" =>
        attempts[d] =
          IF \E name \in feeds[d] : Lower(name) = Lower(rel) THEN 1 ELSE 0

\* What belongs to the poller of channel c: its task, its loop's locals, the
\* entry of the mapping under its key.
Local(c) ==
  <<pc[c], outcome[c], exc[c], logged[c], info[c], last[c], before[c], dec[c],
    fired[c], tracked[c], retries[c], sleeps[c], gap[c], live[c],
    Get(data, Key(c))>>

\* C13: in every step but a reboot or an unload, when the poller of one
\* channel moves (it fails, retries after a timeout, ends, or does anything
\* else) the task, the locals and the stored value of every other channel
\* stay as they are: at most one channel's poller changes in a step.
C13_PollersIndependent ==
  [][\A c \in Channels : \A d \in Channels \ {c} :
       (Local(c)' # Local(c) /\ Local(d)' # Local(d)) => Cancelling]_vars

\* One poller ended on an error, a second one retries after timeouts, and
\* the third has since detected a build of its own in its second cycle.
C13_Witness ==
  \E c \in Channels : \E d \in Channels \ {c} : \E e \in Channels \ {c, d} :
    /\ TaskDone(c) /\ outcome[c] \in {"returned", "raised"}
    /\ retries[d] = MaxRetries /\ pc[d] = "fetch"
    /\ pc[e] = "sleep" /\ gap[e] = 1 /\ dec[e] = "New" /\ fired[e] = 1

\* C14: a reboot leaves every channel with one pending task at its first
\* fetch, with no timeout counted, no sleep counted and no descriptor,
\* decision or error kept from the task before; and after every step each
\* channel has at most one task that is neither cancelled nor finished,
\* which is the task in _poller_tasks.
C14_OnePollerPerChannel ==
  [][\A c \in Channels :
       /\ live'[c] <= 1
       /\ live'[c] = 1 <=> (pc'[c] \in Running /\ outcome'[c] = "pending")
       /\ Reboot =>
            /\ live'[c] = 1
            /\ pc'[c] = "fetch" /\ outcome'[c] = "pending"
            /\ retries'[c] = 0 /\ sleeps'[c] = -1
            /\ info'[c] = None /\ dec'[c] = "none" /\ fired'[c] = 0
            /\ exc'[c] = None /\ logged'[c] = None]_vars

\* A reboot has replaced a task whose write was under way (its thread still
\* runs), and every channel has its one new task; one of them is past its
\* first fetch.
C14_Witness ==
  /\ loaded
  /\ orphans > 0
  /\ \A c \in Channels : live[c] = 1
  /\ \E c \in Channels : pc[c] = "sleep"

\* C15: when a reboot or an unload cancels a poller whose put has not
\* returned, and no thread is left writing afterwards, the file is whole and
\* holds for that channel the value the mapping holds; and when the thread
\* of a cancelled poller finishes its write, the file is the JSON of the
\* mapping.
C15_CancelledWriteAllOrNothing ==
  [][/\ \A c \in Channels :
          (Cancelling /\ pc[c] \in {"put", "saving"} /\ orphans' = 0) =>
            /\ file'.st \in {"absent", "written"}
            /\ Get(Load(file'), Key(c)) = Get(data', Key(c))
     /\ (orphans' < orphans /\ file' # file) => file' = Written(data')]_vars

\* C16: a new_build event is dispatched only by the step in which the
\* write of its track call returns, and at that moment, whatever the other
\* channels' pollers were writing meanwhile, the file is the JSON of the
\* in-memory mapping, with the latest value of every channel.
C16_WriteThroughNoConflict ==
  [][\A c \in Channels :
       /\ fired'[c] > fired[c] => pc[c] = "saving"
       /\ (pc[c] = "saving" /\ fired'[c] > fired[c]) =>
            file' = Written(data')]_vars

\* C20: with no file at startup the mapping starts empty; from then on a
\* key that holds a build never goes back to absent, the value under a
\* channel's key changes only in the step in which that channel's track
\* decides New, and then to the release_build tracked; and a track that
\* finds its channel's key absent decides New.
C20_TrackerLifecycle ==
  /\ file = Absent => data = EmptyMapping
  /\ [][\A c \in Channels :
          /\ Get(data, Key(c)) # None => Get(data', Key(c)) # None
          /\ Get(data', Key(c)) # Get(data, Key(c)) =>
               /\ pc[c] = "fetch" /\ pc'[c] = "put"
               /\ dec'[c] = "New"
               /\ info'[c] = Get(data', Key(c))
          /\ (pc[c] = "fetch" /\ dec'[c] # "none" /\ Get(data, Key(c)) = None) =>
               dec'[c] = "New"]_vars

\* A channel's stored build has just been replaced by another one while a
\* second channel's key holds its build.
C20_Witness ==
  \E c \in Channels : \E d \in Channels \ {c} :
    /\ dec[c] = "New" /\ last[c] # None /\ pc[c] = "put"
    /\ Get(data, Key(c)) = info[c] /\ info[c] # last[c]
    /\ Get(data, Key(d)) # None

\* C17: once the login page has answered 200, a body with one matching
\* script tag or more has given exactly the hashes of its matches, in
\* document order, and no IndexError; a body with no match has given a
\* ReleaseExtractorError and no hashes.
C17_AllHashesInOrder ==
  status = 200 =>
    IF FindAll(body) = <<>>
      THEN ferr = "ReleaseExtractorError" /\ hashes = <<>>
      ELSE hashes = FindAll(body) /\ ferr # "IndexError"

\* C18: whenever the asset has been requested, its URL is the asset URL of
\* the last hash found in the login page.
C18_AssetOfLastHash ==
  Len(reqs) = 2 =>
    reqs[2] = get_asset_url(fch, FindAll(body)[Len(FindAll(body))])

\* C19: the first request of a call is the login page and the second, if
\* any, the asset of release_hashes.main, sent only from the login step,
\* after a 200 and with the hashes built; a status other than 200 ends the
\* call with a ReleaseExtractorError and the task with it, with the login
\* page as its only request; a descriptor reaches track only from the
\* asset step and carries the build of the marker found; and a step in
\* which the call fails reads and writes nothing of the tracker and
\* dispatches nothing.
C19_FetchOrderedFailsEarly ==
  [][/\ Len(reqs') <= 2
     /\ reqs' # <<>> => reqs'[1] = get_login_page(fch')
     /\ Len(reqs') = 2 =>
          /\ status' = 200
          /\ hashes' # <<>>
          /\ reqs'[2] = get_asset_url(fch', Main(hashes'))
          /\ Len(reqs) = 2 \/ fpc = "login"
     /\ status' \notin {0, 200} =>
          /\ Len(reqs') = 1
          /\ ferr' = "ReleaseExtractorError"
          /\ pc'[fch'] = "done"
     /\ \A c \in Channels :
          (info'[c] # None /\ info[c] = None) =>
            /\ c = fch /\ fpc = "asset"
            /\ marker' # None /\ info'[c] = marker'
            /\ dec'[c] # "none"
     /\ (fpc \in {"login", "asset"} /\ ferr' # None) =>
          /\ UNCHANGED <<data, file, tracked, fired, last, dec, info>>
          /\ fpc' \in {"idle", "end"}]_vars

\* The call for STABLE failed at the asset: the login page answered 200, the
\* hashes were built, the asset was requested and held no marker.
C19_Witness ==
  /\ fch = "STABLE"
  /\ fpc = "end"
  /\ status = 200
  /\ Len(reqs) = 2
  /\ ferr = "ReleaseExtractorError"
  /\ TaskDone(fch)

C12_CycleStrictlySequential ==
  [][/\ Len(handlers') > Len(handlers) =>
          /\ pc[Followed] = "saving"
          /\ dec[Followed] = "New"
     /\ \A c \in Channels :
          (pc[c] = "sleep" /\ pc'[c] = "fetch" /\ sleeps'[c] = sleeps[c] + 1) =>
            \A i \in DOMAIN handlers :
              handlers[i].ch = c => handlers[i].hpc \in {"done", "raised"}]_vars

\* The subdomain prefix the URLs of a channel carry: none for Stable, the
\* channel's name in lowercase and a dot for the others.
Subdomain(c) ==
  CASE c = "STABLE" -> ""
    [] c = "CANARY" -> "canary."
    [] c = "PTB" -> "ptb."

\* The hosts a URL of the service may name.
Hosts == {"discordapp.com", "canary.discordapp.com", "ptb.discordapp.com",
          "stable.discordapp.com"}

\* C21: the entry-page URL and the asset URL of a channel carry the bare
\* domain for Stable and the lowercase channel name and a dot before the
\* domain for every other channel; the entry page and the asset a call
\* requests are on one host.
C21_UrlsByChannel ==
  /\ \A c \in Channels, h \in AssetHashes :
       /\ get_login_page(c) = "https://" \o Subdomain(c) \o "discordapp.com/login"
       /\ get_asset_url(c, h) =
            "https://" \o Subdomain(c) \o "discordapp.com/assets/" \o h \o ".js"
  /\ Len(reqs) >= 1 =>
       \E host \in Hosts :
         /\ reqs[1] = "https://" \o host \o "/login"
         /\ Len(reqs) >= 2 =>
              reqs[2] = "https://" \o host \o "/assets/" \o Main(hashes) \o ".js"

\* The poller of Canary has requested its entry page and then its main asset.
C21_Witness ==
  /\ fch = "CANARY"
  /\ hashes = <<"a1", "b2">>
  /\ reqs = <<"https://canary.discordapp.com/login",
              "https://canary.discordapp.com/assets/b2.js">>

\* A new_build event for build b has been dispatched: a handler was created
\* for a detection of b.
Dispatched(b) ==
  \E i \in DOMAIN handlers : found[handlers[i].det] = b

\* C22: whenever the tracker holds build b as the last seen id of the
\* followed channel, a new_build event for b is dispatched at some point,
\* also when the pollers are rebooted while the write of track is in flight.
C22_RecordedIsDispatched ==
  \A b \in Builds : [](Get(data, Key(Followed)) = b => <>Dispatched(b))

\* C23: when the write of a track call raises, the mapping holds for the
\* channel the id track read before it, no new_build event was dispatched
\* in the call, and a track of the same descriptor would decide New.
C23_FailedWriteChangesNothing ==
  [][\A c \in Channels :
       (pc[c] \in {"put", "saving"} /\ outcome'[c] = "raised") =>
         /\ Get(data', Key(c)) = last[c]
         /\ fired[c] = 0
         /\ IsNewBuild(Get(data', Key(c)), info[c])]_vars

\* C24: the calls of send to one channel id are in the order in which track
\* decided New for their builds: a call for a later detection never comes
\* before a call for an earlier detection to the same channel id.
C24_DeliveredInDetectionOrder ==
  \A p \in DOMAIN sent : \A q \in DOMAIN sent :
    (p < q /\ sent[p].dest = sent[q].dest) => sent[p].det <= sent[q].det

TypeOK ==
  /\ pc \in [Channels -> Running \cup {"none", "done"}]
  /\ data \in Mappings
  /\ file \in Files
  /\ orphans \in 0..MaxOrphans
  /\ live \in [Channels -> 0..1]
  /\ race \in [Channels -> {"none", "stale", "over"}]
  /\ hpc \in {"none", "waiting", "running", "done", "raised"}
  /\ fpc \in {"idle", "login", "asset", "end"}
  /\ Len(found) <= MaxFound
  /\ Len(handlers) <= Len(found)
  /\ \A i \in DOMAIN handlers :
       handlers[i].hpc \in {"created", "waiting", "woken", "running", "done", "raised"}
  /\ \A i \in DOMAIN runq : handlers[runq[i]].hpc \in {"created", "woken"}
  /\ body \in Bodies
  /\ status \in {0, 200, 404}
====
